---------------------------- MODULE Spec2Model ----------------------------
(***************************************************************************)
(* Model of the drop-zone classifier of etl_crm_project:                   *)
(*   schemas_loader.py  (load_schema, load_all_schemas)                    *)
(*   file_inspector.py / header_detector.py  (inspect_file, read_rows)     *)
(*   matcher.py         (match_file_to_schema)                             *)
(*   router.py, file_mover.py  (destination paths, the move, the record)   *)
(*   classify_drop_zone.py     (run_classify_drop_zone, _reject_on_error)  *)
(*                                                                         *)
(* Text is a sequence of one-character strings, so that glob matching,     *)
(* suffix extraction, lower-casing and stripping are computed rather than  *)
(* assumed.  A path is a sequence of components, the last one the name.    *)
(* Python indices are 0-based: a header row index is the row's position    *)
(* in the sequence minus one.                                              *)
(***************************************************************************)
EXTENDS Integers, Sequences, FiniteSets, TLC

VARIABLES
    phase,          \* position of the modelled call (see each specification)
    schemas_dir,    \* config/schemas: whether it is a directory, its entries
    schemas,        \* the catalog: List[Schema]
    file_profile,   \* FileProfile of the file being processed, or NoProfile
    match,          \* MatchResult of the file being processed, or NoMatch
    incoming_is_dir,\* drop_zone/incoming exists
    listing,        \* what incoming_dir.iterdir() yields, in its order
    idx,            \* position of the loop in listing
    fs,             \* the files on disk: path -> name the file had in incoming
    records,        \* records: List[ClassificationRecord]
    logs,           \* the classification logs written, each its rows
    summary,        \* the [SUMMARY] line printed, or NoSummary
    load_date,      \* load_date, or NoDate before date.today() is taken
    today,          \* the calendar day, as a position in Days
    exc             \* str(exc) of the exception being handled, or NoneStr

runVars == <<incoming_is_dir, listing, idx, fs, records, logs, summary, load_date, today, exc>>

vars == <<phase, schemas_dir, schemas, file_profile, match, runVars>>

----------------------------------------------------------------------------
(* Bounds of the model *)

MaxSchemas == 2     \* schemas in a catalog handed to the matcher
MaxRows == 2        \* rows in a probed file
MaxDefs == 2        \* entries in the schema directory
MaxFiles == 2       \* entries in drop_zone/incoming
MaxTicks == 1       \* midnights that pass during a run

----------------------------------------------------------------------------
(* Optional values *)

NoneStr == "<None>"                 \* Optional[str] = None
NoneIdx == -1                       \* Optional[int] = None (indices are >= 0)
NoSchema == [none |-> "schema"]     \* Optional[Schema] = None
NoProfile == [none |-> "profile"]
NoMatch == [none |-> "match"]
NoSummary == [none |-> "summary"]
NoDate == [none |-> "date"]

----------------------------------------------------------------------------
(* Sequences *)

Last(s) == s[Len(s)]

SeqToSet(s) == {s[i] : i \in 1..Len(s)}

\* All sequences over S of length 0..n
SeqsUpTo(S, n) == UNION {[1..k -> S] : k \in 0..n}

----------------------------------------------------------------------------
(* fnmatch.fnmatch(filename, pattern) on POSIX: case-sensitive, the whole    *)
(* name must match; '*' any run, '?' one character, '[seq]' / '[!seq]' one  *)
(* character in / not in seq, anything else itself.  (Ranges a-z inside a   *)
(* class are not modelled; no pattern of the model has one.)               *)

\* Position of the ']' closing the class opened at pat[j], or 0 if none:
\* a ']' directly after '[' or '[!' is a member, not the end.
ClassEnd(pat, j) ==
    LET first == IF j + 1 <= Len(pat) /\ pat[j + 1] = "!" THEN j + 3 ELSE j + 2
        ends == {k \in first..Len(pat) : pat[k] = "]"}
    IN  IF ends = {} THEN 0
        ELSE CHOOSE k \in ends : \A k2 \in ends : k <= k2

ClassMatches(pat, j, k, c) ==
    LET neg == pat[j + 1] = "!"
        members == {pat[x] : x \in (IF neg THEN j + 2 ELSE j + 1)..(k - 1)}
    IN  IF neg THEN c \notin members ELSE c \in members

RECURSIVE fnmatchFrom(_, _, _, _)
fnmatchFrom(name, pat, i, j) ==
    IF j > Len(pat) THEN i > Len(name)
    ELSE IF pat[j] = "*" THEN
        \/ fnmatchFrom(name, pat, i, j + 1)
        \/ i <= Len(name) /\ fnmatchFrom(name, pat, i + 1, j)
    ELSE IF pat[j] = "?" THEN
        i <= Len(name) /\ fnmatchFrom(name, pat, i + 1, j + 1)
    ELSE IF pat[j] = "[" /\ ClassEnd(pat, j) # 0 THEN
        /\ i <= Len(name)
        /\ ClassMatches(pat, j, ClassEnd(pat, j), name[i])
        /\ fnmatchFrom(name, pat, i + 1, ClassEnd(pat, j) + 1)
    ELSE
        i <= Len(name) /\ name[i] = pat[j] /\ fnmatchFrom(name, pat, i + 1, j + 1)

fnmatch(name, pat) == fnmatchFrom(name, pat, 1, 1)

\* any(fnmatch.fnmatch(filename, pattern) for pattern in patterns)
_matches_any_pattern(filename, patterns) ==
    \E k \in 1..Len(patterns) : fnmatch(filename, patterns[k])

----------------------------------------------------------------------------
(* Characters: the ones the model's names use, in increasing code point      *)
(* order, so that string comparison and lower() are computed.                *)

AsciiOrder ==
    <<" ", "!", "*", ".", "1", "2", "?", "A", "B", "C", "D", "S", "T", "V",
      "X", "[", "]", "_", "a", "b", "c", "d", "l", "m", "s", "t", "v", "x", "y">>

Ord(c) == CHOOSE k \in 1..Len(AsciiOrder) : AsciiOrder[k] = c

\* a < b for two strings, as Python compares str: by code point, a proper
\* prefix first.
RECURSIVE StrLess(_, _)
StrLess(a, b) ==
    IF b = <<>> THEN FALSE
    ELSE IF a = <<>> THEN TRUE
    ELSE IF Head(a) = Head(b) THEN StrLess(Tail(a), Tail(b))
    ELSE Ord(Head(a)) < Ord(Head(b))

----------------------------------------------------------------------------
(* schemas_loader.py *)

\* A parsed YAML value: kind "absent" (the key is not in the mapping), "null",
\* "str" (v a string), "chars" (a string, v its characters), "list" (v its
\* items), "map" (a mapping, v its keys in order).
Absent == [kind |-> "absent", v |-> <<>>]
Null == [kind |-> "null", v |-> <<>>]
Str(x) == [kind |-> "str", v |-> x]
Chars(x) == [kind |-> "chars", v |-> x]
List(x) == [kind |-> "list", v |-> x]
Map(keys) == [kind |-> "map", v |-> keys]

RequiredKeys == {"id", "source_system", "dataset_name", "file_patterns", "required_columns"}

\* key not in data or data[key] in (None, [], "")
IsMissingKey(data, key) ==
    \/ data[key].kind = "absent"
    \/ data[key].kind = "null"
    \/ data[key].kind = "list" /\ data[key].v = <<>>
    \/ data[key].kind = "str" /\ data[key].v = ""
    \/ data[key].kind = "chars" /\ data[key].v = <<>>

\* list(value): a list's items, a mapping's keys, a string's characters.
ListOf(val) ==
    IF val.kind = "chars" THEN [k \in 1..Len(val.v) |-> <<val.v[k]>>]
    ELSE val.v

\* A schema whose definition sets the five required keys only: the other
\* fields take the defaults of the dataclass, which load_schema passes too.
Schema(id, source_system, dataset_name, file_patterns, required_columns) ==
    [id |-> id, source_system |-> source_system, dataset_name |-> dataset_name,
     version |-> "1.0", description |-> NoneStr,
     file_patterns |-> file_patterns,
     expected_delimiter |-> NoneStr, expected_encoding |-> NoneStr,
     allow_extra_columns |-> TRUE,
     required_columns |-> required_columns, optional_columns |-> <<>>]

\* data = yaml.safe_load(f) or {}: an empty document reads as the empty
\* mapping, every key absent.
DataOf(entry) ==
    IF entry.doc = "empty" THEN [k \in RequiredKeys |-> Absent] ELSE entry.data

\* load_schema(path): [ok |-> TRUE, schema |-> ..] or [ok |-> FALSE] (raises:
\* the file does not parse, or a required key is missing).
load_schema(entry) ==
    IF entry.doc = "invalid" THEN [ok |-> FALSE, schema |-> NoSchema]
    ELSE IF \E key \in RequiredKeys : IsMissingKey(DataOf(entry), key)
         THEN [ok |-> FALSE, schema |-> NoSchema]
         ELSE [ok |-> TRUE,
               schema |-> Schema(DataOf(entry)["id"].v,
                                 DataOf(entry)["source_system"].v,
                                 DataOf(entry)["dataset_name"].v,
                                 ListOf(DataOf(entry)["file_patterns"]),
                                 ListOf(DataOf(entry)["required_columns"]))]

GlobYaml == <<"*", ".", "y", "a", "m", "l">>
GlobYml == <<"*", ".", "y", "m", "l">>

\* sorted(paths): the entries by ascending name.
RECURSIVE sorted(_)
sorted(entries) ==
    IF entries = {} THEN <<>>
    ELSE LET first == CHOOSE e \in entries :
                          \A o \in entries \ {e} : StrLess(e.name, o.name)
         IN  <<first>> \o sorted(entries \ {first})

\* Mutant: the *.yaml files in order, then the *.yml files in order.
schema_files_YamlFirst(dir) ==
    sorted({e \in dir.entries : fnmatch(e.name, GlobYaml)})
        \o sorted({e \in dir.entries : fnmatch(e.name, GlobYml)})

\* sorted(list(config_dir.glob("*.yaml")) + list(config_dir.glob("*.yml")))
schema_files(dir) ==
    sorted({e \in dir.entries : fnmatch(e.name, GlobYaml)}
           \cup {e \in dir.entries : fnmatch(e.name, GlobYml)})

\* Mutant: a definition that does not load is skipped.
RECURSIVE LoadEach_SkipBad(_)
LoadEach_SkipBad(files) ==
    IF files = <<>> THEN [ok |-> TRUE, schemas |-> <<>>]
    ELSE LET one == load_schema(Head(files))
             rest == LoadEach_SkipBad(Tail(files))
         IN  IF ~one.ok THEN rest
             ELSE [ok |-> TRUE, schemas |-> <<one.schema>> \o rest.schemas]

\* for path in schema_files: schemas.append(load_schema(path))
RECURSIVE LoadEach(_)
LoadEach(files) ==
    IF files = <<>> THEN [ok |-> TRUE, schemas |-> <<>>]
    ELSE LET one == load_schema(Head(files))
             rest == LoadEach(Tail(files))
         IN  IF ~one.ok THEN [ok |-> FALSE, schemas |-> <<>>]
             ELSE IF ~rest.ok THEN rest
             ELSE [ok |-> TRUE, schemas |-> <<one.schema>> \o rest.schemas]

\* load_all_schemas(config_dir): [ok |-> TRUE, schemas |-> ..], or
\* [ok |-> FALSE, ..] when it raises.
load_all_schemas(dir) ==
    IF ~dir.is_dir THEN [ok |-> FALSE, schemas |-> <<>>]
    ELSE LoadEach(schema_files(dir))

----------------------------------------------------------------------------
(* matcher.py *)

\* {cell for cell in row if cell}
row_values(row) == {row[k] : k \in {x \in 1..Len(row) : row[x] # <<>>}}

\* Mutant: one required column in the row is enough.
IsHeaderRow_AnyColumn(schema, row) ==
    row_values(row) \cap SeqToSet(schema.required_columns) # {}

\* Mutant: a schema that does not allow extra columns takes only a row
\* whose cells are required or optional columns.
IsHeaderRow_HonoursAllowExtra(schema, row) ==
    /\ row_values(row) # {}
    /\ SeqToSet(schema.required_columns) \subseteq row_values(row)
    /\ \/ schema.allow_extra_columns
       \/ row_values(row) \subseteq
              SeqToSet(schema.required_columns) \cup SeqToSet(schema.optional_columns)

\* Mutant: the row must hold the required columns and no other.
IsHeaderRow_NoExtraColumn(schema, row) ==
    /\ row_values(row) # {}
    /\ SeqToSet(schema.required_columns) = row_values(row)

\* The test of one row: it has a non-empty cell and holds every required column.
IsHeaderRow(schema, row) ==
    /\ row_values(row) # {}
    /\ SeqToSet(schema.required_columns) \subseteq row_values(row)

\* for idx, row in enumerate(rows): ... return True, idx, list(required)
RECURSIVE ScanRows(_, _, _)
ScanRows(schema, rows, pos) ==
    IF pos > Len(rows)
    THEN [is_match |-> FALSE, header_idx |-> NoneIdx]
    ELSE IF IsHeaderRow(schema, rows[pos])
         THEN [is_match |-> TRUE, header_idx |-> pos - 1]
         ELSE ScanRows(schema, rows, pos + 1)

_find_header_row_for_schema(schema, rows) == ScanRows(schema, rows, 1)

\* Mutant: the earlier header row wins, whatever the required-column counts.
IsBetter_EarliestRowFirst(required_count, header_idx, best) ==
    best.header_row_index = NoneIdx \/ header_idx < best.header_row_index

\* Mutant: on a full tie the later schema replaces the earlier one.
IsBetter_LaterWinsTies(required_count, header_idx, best) ==
    \/ required_count > best.required_count
    \/ /\ required_count = best.required_count
       /\ (best.header_row_index = NoneIdx \/ header_idx <= best.header_row_index)

\* Mutant: no tie-break on the header row.
IsBetter_CountOnly(required_count, header_idx, best) ==
    required_count > best.required_count

\* Mutant: the comparison remembers that an earlier call found a match.
IsBetter_RemembersLastCall(required_count, header_idx, best) ==
    /\ match = NoMatch
    /\ \/ required_count > best.required_count
       \/ /\ required_count = best.required_count
          /\ (best.header_row_index = NoneIdx \/ header_idx < best.header_row_index)

\* The comparison that replaces the best schema so far.
IsBetter(required_count, header_idx, best) ==
    \/ required_count > best.required_count
    \/ /\ required_count = best.required_count
       /\ (best.header_row_index = NoneIdx \/ header_idx < best.header_row_index)

\* The loop over candidate_schemas, from candidate k on.
RECURSIVE BestFrom(_, _, _, _)
BestFrom(cands, rows, k, best) ==
    IF k > Len(cands) THEN best
    ELSE LET found == _find_header_row_for_schema(cands[k], rows)
             required_count == Len(cands[k].required_columns)
         IN  IF ~found.is_match \/ found.header_idx = NoneIdx
             THEN BestFrom(cands, rows, k + 1, best)
             ELSE IF IsBetter(required_count, found.header_idx, best)
                  THEN BestFrom(cands, rows, k + 1,
                                [schema |-> cands[k],
                                 header_row_index |-> found.header_idx,
                                 required_count |-> required_count])
                  ELSE BestFrom(cands, rows, k + 1, best)

\* A file pattern that is not a string ("file_patterns: [1]").
NonStringPattern == <<"<int>">>

\* fnmatch raises TypeError on a pattern that is not a string; any() reaches
\* it unless an earlier pattern of the schema already matched.
PatternRaises(filename, patterns) ==
    \E k \in 1..Len(patterns) :
        /\ patterns[k] = NonStringPattern
        /\ \A j \in 1..(k - 1) :
               patterns[j] # NonStringPattern /\ ~fnmatch(filename, patterns[j])

\* match_file_to_schema raises: the list comprehension over all the schemas
\* meets a pattern that raises.
match_raises(profile, catalog) ==
    \E i \in 1..Len(catalog) : PatternRaises(Last(profile.path), catalog[i].file_patterns)

MatchResult(status, schema, reason, header_row_index, matched_columns) ==
    [status |-> status, schema |-> schema, reason |-> reason,
     header_row_index |-> header_row_index, matched_columns |-> matched_columns]

\* Mutant: every schema of the catalog is a candidate.
candidate_schemas_Unfiltered(filename, catalog) == catalog

\* [s for s in schemas if _matches_any_pattern(filename, s.file_patterns)]
RECURSIVE candidate_schemas(_, _)
candidate_schemas(filename, catalog) ==
    IF catalog = <<>> THEN <<>>
    ELSE IF _matches_any_pattern(filename, Head(catalog).file_patterns)
         THEN <<Head(catalog)>> \o candidate_schemas(filename, Tail(catalog))
         ELSE candidate_schemas(filename, Tail(catalog))

match_file_to_schema(profile, catalog) ==
    LET filename == Last(profile.path)
        cands == candidate_schemas(filename, catalog)
        best == BestFrom(cands, profile.rows, 1,
                         [schema |-> NoSchema, header_row_index |-> NoneIdx,
                          required_count |-> -1])
    IN  IF cands = <<>>
        THEN MatchResult("unclassified", NoSchema, "no_file_pattern_match",
                         NoneIdx, <<>>)
        ELSE IF best.schema = NoSchema
        THEN MatchResult("unclassified", NoSchema,
                         "no_header_match_for_any_candidate", NoneIdx, <<>>)
        ELSE MatchResult("matched", best.schema, NoneStr,
                         best.header_row_index, best.schema.required_columns)

----------------------------------------------------------------------------
(* header_detector.py, file_inspector.py *)

\* str.lower() on the characters of the model.
LowerChar(c) ==
    CASE c = "A" -> "a" [] c = "B" -> "b" [] c = "C" -> "c" [] c = "D" -> "d"
      [] c = "S" -> "s" [] c = "T" -> "t" [] c = "V" -> "v" [] c = "X" -> "x"
      [] OTHER -> c

lower(str) == [k \in 1..Len(str) |-> LowerChar(str[k])]

\* Path.suffix: the name from its last dot on, when that dot is neither the
\* first nor the last character; '' otherwise.
suffix(name) ==
    LET dots == {k \in 1..Len(name) : name[k] = "."}
        last == CHOOSE k \in dots : \A k2 \in dots : k2 <= k
    IN  IF dots = {} THEN <<>>
        ELSE IF last = 1 \/ last = Len(name) THEN <<>>
        ELSE SubSeq(name, last, Len(name))

\* str.strip(): leading and trailing blanks removed.
RECURSIVE strip(_)
strip(str) ==
    IF str = <<>> THEN <<>>
    ELSE IF Head(str) = " " THEN strip(Tail(str))
    ELSE IF str[Len(str)] = " " THEN strip(SubSeq(str, 1, Len(str) - 1))
    ELSE str

\* A cell pandas read as NaN.
NaN == <<"<NaN>">>

\* _normalize_cell(value): '' for None / NaN, the stripped text otherwise.
_normalize_cell(value) == IF value = NaN THEN <<>> ELSE strip(value)

NormalizeRow(row) == [k \in 1..Len(row) |-> _normalize_cell(row[k])]

Min(a, b) == IF a <= b THEN a ELSE b

\* Mutant: every row of the file is read.
FirstRows_NoCap(raw_rows, max_rows) ==
    [k \in 1..Len(raw_rows) |-> NormalizeRow(raw_rows[k])]

\* read_rows_from_csv / read_rows_from_excel: the first max_rows rows, each
\* cell normalized.
FirstRows(raw_rows, max_rows) ==
    [k \in 1..Min(max_rows, Len(raw_rows)) |-> NormalizeRow(raw_rows[k])]

Ext_csv == <<".", "c", "s", "v">>
Ext_xlsx == <<".", "x", "l", "s", "x">>
Ext_xls == <<".", "x", "l", "s">>

\* read_rows(path, max_rows): [ok |-> TRUE, rows |-> ..], or [ok |-> FALSE,
\* error |-> ..] when it raises: an extension outside .csv/.xlsx/.xls, or a
\* file that cannot be read or decoded (entry.fault).
read_rows(entry, max_rows) ==
    IF lower(suffix(entry.name)) \notin {Ext_csv, Ext_xlsx, Ext_xls}
    THEN [ok |-> FALSE, error |-> "Unsupported file extension", rows |-> <<>>]
    ELSE IF entry.fault # "none"
    THEN [ok |-> FALSE, error |-> entry.fault, rows |-> <<>>]
    ELSE [ok |-> TRUE, error |-> NoneStr, rows |-> FirstRows(entry.rows, max_rows)]

\* inspect_file(path, max_rows): [ok |-> TRUE, profile |-> ..], or
\* [ok |-> FALSE, error |-> ..] when it raises.
inspect_file(dir, entry, max_rows) ==
    IF entry.kind # "file"
    THEN [ok |-> FALSE, error |-> "File does not exist", profile |-> NoProfile]
    ELSE LET read == read_rows(entry, max_rows)
         IN  IF ~read.ok
             THEN [ok |-> FALSE, error |-> read.error, profile |-> NoProfile]
             ELSE [ok |-> TRUE, error |-> NoneStr,
                   profile |-> [path |-> Append(dir, entry.name),
                                extension |-> lower(suffix(entry.name)),
                                rows |-> read.rows]]

----------------------------------------------------------------------------
(* router.py *)

Digit(n) == <<"0", "1", "2", "3", "4", "5", "6", "7", "8", "9">>[n + 1]

\* %m, %d: two digits.  %Y: the year's digits (four for the years modelled).
TwoDigits(n) == <<Digit(n \div 10), Digit(n % 10)>>
FourDigits(n) == TwoDigits(n \div 100) \o TwoDigits(n % 100)

\* load_date.strftime("%Y-%m-%d")
strftime(d) == FourDigits(d.year) \o <<"-">> \o TwoDigits(d.month) \o <<"-">> \o TwoDigits(d.day)

\* The calendar days a run may see: date.today() is Days[today].
Days ==
    <<[year |-> 2026, month |-> 12, day |-> 31],
      [year |-> 2027, month |-> 1, day |-> 1],
      [year |-> 2027, month |-> 1, day |-> 2]>>

\* PurePath parts of a text used as a path segment, for the texts of the
\* model: a text holding separators is several components, "." is none, any
\* other text is one.
PathParts(text) ==
    CASE text = "crm/v2" -> <<"crm", "v2">>
      [] text = "." -> <<>>
      [] text = "/srv" -> <<"/", "srv">>
      [] OTHER -> <<text>>

\* path / text: the parts of text appended, or, when text is absolute, the
\* parts of text alone.
joinpath(path, text) ==
    IF text = "/srv" THEN PathParts(text) ELSE path \o PathParts(text)

\* Mutant: the partition is the day on which the file is moved.
build_raw_target_path_DayOfMove(datalake_root, schema, day, original_filename) ==
    joinpath(joinpath(Append(datalake_root, "raw"), schema.source_system),
             schema.dataset_name)
        \o << <<"load_date=">> \o strftime(Days[today]), original_filename >>

build_raw_target_path(datalake_root, schema, day, original_filename) ==
    joinpath(joinpath(Append(datalake_root, "raw"), schema.source_system),
             schema.dataset_name)
        \o << <<"load_date=">> \o strftime(day), original_filename >>

\* Mutant: the destination keeps the extension of the file, not its name.
build_unclassified_path_SuffixOnly(datalake_root, original_filename) ==
    datalake_root \o <<"drop_zone", "unclassified", suffix(original_filename)>>

build_unclassified_path(datalake_root, original_filename) ==
    datalake_root \o <<"drop_zone", "unclassified", original_filename>>

build_rejected_path(datalake_root, original_filename) ==
    datalake_root \o <<"drop_zone", "rejected", original_filename>>

----------------------------------------------------------------------------
(* file_mover.py *)

ClassificationRecord(original_path, target_path, status, schema_id, source_system, dataset_name, reason, header_row_index) ==
    [original_path |-> original_path, target_path |-> target_path,
     status |-> status, schema_id |-> schema_id, source_system |-> source_system,
     dataset_name |-> dataset_name, reason |-> reason,
     header_row_index |-> header_row_index]

\* The destination move_file_according_to_result decides on.
TargetOf(profile, m, datalake_root, day) ==
    IF m.status = "matched" /\ m.schema # NoSchema
    THEN build_raw_target_path(datalake_root, m.schema, day, Last(profile.path))
    ELSE IF m.status = "unclassified"
    THEN build_unclassified_path(datalake_root, Last(profile.path))
    ELSE IF m.status = "rejected"
    THEN build_rejected_path(datalake_root, Last(profile.path))
    ELSE build_unclassified_path(datalake_root, Last(profile.path))

\* Mutant: the header row index of the match is not carried into the record.
RecordOf_NoHeaderIndex(profile, m, datalake_root, day) ==
    LET named == m.status = "matched" /\ m.schema # NoSchema
    IN  ClassificationRecord(profile.path,
                             TargetOf(profile, m, datalake_root, day),
                             m.status,
                             IF named THEN m.schema.id ELSE NoneStr,
                             IF named THEN m.schema.source_system ELSE NoneStr,
                             IF named THEN m.schema.dataset_name ELSE NoneStr,
                             m.reason,
                             NoneIdx)

\* The record move_file_according_to_result returns.
RecordOf(profile, m, datalake_root, day) ==
    LET named == m.status = "matched" /\ m.schema # NoSchema
    IN  ClassificationRecord(profile.path,
                             TargetOf(profile, m, datalake_root, day),
                             m.status,
                             IF named THEN m.schema.id ELSE NoneStr,
                             IF named THEN m.schema.source_system ELSE NoneStr,
                             IF named THEN m.schema.dataset_name ELSE NoneStr,
                             m.reason,
                             m.header_row_index)

\* Mutant: the file is copied to dst and never removed from src.
shutil_move_LeavesSource(files, src, dst) ==
    [p \in DOMAIN files \cup {dst} |-> IF p = dst THEN files[src] ELSE files[p]]

\* Mutant: a file already at dst is kept and the moved file is dropped.
shutil_move_KeepsExisting(files, src, dst) ==
    IF dst \in DOMAIN files
    THEN [p \in DOMAIN files \ {src} |-> files[p]]
    ELSE [p \in (DOMAIN files \ {src}) \cup {dst} |-> IF p = dst THEN files[src] ELSE files[p]]

\* shutil.move(src, dst) on one volume: the file at src is at dst afterwards,
\* replacing what was there.
shutil_move(files, src, dst) ==
    [p \in (DOMAIN files \ {src}) \cup {dst} |-> IF p = dst THEN files[src] ELSE files[p]]

\* The row write_classification_log writes for a record: None as ''.
LogRow(r) ==
    [r EXCEPT !.schema_id = IF @ = NoneStr THEN "" ELSE @,
              !.source_system = IF @ = NoneStr THEN "" ELSE @,
              !.dataset_name = IF @ = NoneStr THEN "" ELSE @,
              !.reason = IF @ = NoneStr THEN "" ELSE @]

write_classification_log(recs) == [k \in 1..Len(recs) |-> LogRow(recs[k])]

----------------------------------------------------------------------------
(* Inputs of the model *)

ColA == <<"A">>
ColB == <<"B">>
ColC == <<"C">>
ColD == <<"D">>
ColX == <<"X">>
Blank == <<>>

Name_a1_csv == <<"a", "1", ".", "c", "s", "v">>
Name_b1_csv == <<"b", "1", ".", "c", "s", "v">>

Pat_a_star_csv == <<"a", "*", ".", "c", "s", "v">>
Pat_a_q_csv == <<"a", "?", ".", "c", "s", "v">>
Pat_star == <<"*">>
Pat_class_csv == <<"[", "!", "a", "]", "*", ".", "c", "s", "v">>

S_ab == Schema("s_ab", "sf", "accounts", <<Pat_a_star_csv>>, <<ColA, ColB>>)
S_abcd == Schema("s_abcd", "sf", "contacts", <<Pat_a_q_csv>>, <<ColA, ColB, ColC, ColD>>)
S_ba == Schema("s_ba", "ws", "clients", <<Pat_class_csv, Pat_star>>, <<ColB, ColA>>)
S_cd == Schema("s_cd", "ws", "visits", <<Pat_a_star_csv>>, <<ColC, ColD>>)
S_b == Schema("s_b", "ws", "carers", <<Pat_class_csv>>, <<ColA, ColB>>)
\* What load_schema returns for a definition with "required_columns: {}".
S_none == Schema("s_none", "sf", "leads", <<Pat_star>>, <<>>)

\* A definition may name the empty string as a required column.
S_blank == Schema("s_blank", "sf", "notes", <<Pat_star>>, <<Blank>>)

\* A definition may list a required column more than once.
S_aaa == Schema("s_aaa", "sf", "tasks", <<Pat_star>>, <<ColA, ColA, ColA>>)

SchemaPool == {S_ab, S_abcd, S_ba, S_cd, S_b, S_none, S_blank, S_aaa}

RowPool ==
    { <<Blank, Blank>>,
      <<ColA, ColB, ColX>>,
      <<ColD, ColC, ColB, ColA>>,
      <<ColC, Blank, ColD>> }

IncomingDir == <<"datalake", "drop_zone", "incoming">>

FileProfile(path, extension, rows) ==
    [path |-> path, extension |-> extension, rows |-> rows]

ProfilePool ==
    {FileProfile(Append(IncomingDir, n), <<".", "c", "s", "v">>, r) :
        n \in {Name_a1_csv, Name_b1_csv}, r \in SeqsUpTo(RowPool, MaxRows)}

\* The variables of a batch run, at rest while a single function is studied.
RunIdle ==
    /\ incoming_is_dir = FALSE
    /\ listing = <<>>
    /\ idx = 0
    /\ fs = <<>>
    /\ records = <<>>
    /\ logs = <<>>
    /\ summary = NoSummary
    /\ load_date = NoDate
    /\ today = 1
    /\ exc = NoneStr

----------------------------------------------------------------------------
(* SpecMatch: match_file_to_schema applied to every probed file and catalog  *)
(* of the pools.                                                             *)

InitMatch ==
    /\ phase = "match_input"
    /\ schemas_dir = [is_dir |-> FALSE, entries |-> {}]
    /\ schemas \in SeqsUpTo(SchemaPool, MaxSchemas)
    /\ file_profile \in ProfilePool
    /\ match = NoMatch
    /\ RunIdle

CallMatch ==
    /\ phase = "match_input"
    /\ match' = match_file_to_schema(file_profile, schemas)
    /\ phase' = "match_done"
    /\ UNCHANGED <<schemas_dir, schemas, file_profile, runVars>>

\* A directory a file may be probed from again after a run left it there.
UnclassifiedDir == <<"datalake", "drop_zone", "unclassified">>

\* match_file_to_schema called a second time, on a probed file with the same
\* file name and rows (found in incoming or elsewhere) and the same catalog.
CallMatchAgain ==
    /\ phase = "match_done"
    /\ \E dir \in {IncomingDir, UnclassifiedDir} :
           /\ file_profile' = [file_profile EXCEPT !.path = Append(dir, Last(@))]
           /\ match' = match_file_to_schema(file_profile', schemas)
    /\ phase' = "match_repeated"
    /\ UNCHANGED <<schemas_dir, schemas, runVars>>

NextMatch == CallMatch \/ CallMatchAgain

SpecMatch == InitMatch /\ [][NextMatch]_vars

----------------------------------------------------------------------------
(* SpecVary: match_file_to_schema called on an input, then on the same input *)
(* with one thing changed that the matcher is said not to depend on.         *)

Reverse(seq) == [k \in 1..Len(seq) |-> seq[Len(seq) + 1 - k]]

\* The same definition with other version, description, delimiter and
\* encoding hints, the allow_extra_columns flag flipped and an optional column.
WithOtherHints(schema) ==
    [schema EXCEPT !.version = "2.0", !.description = "changed",
                   !.expected_delimiter = ";", !.expected_encoding = "latin-1",
                   !.allow_extra_columns = ~@, !.optional_columns = <<ColX>>]

\* The same definition with its required columns listed in another order.
WithReorderedColumns(schema) == [schema EXCEPT !.required_columns = Reverse(@)]

\* The same rows with the cells of each row in another order.
WithReorderedCells(rows) == [k \in 1..Len(rows) |-> Reverse(rows[k])]

\* match_file_to_schema called a second time after one schema of the list,
\* or the cells of the rows, were changed by the caller.
CallMatchVaried ==
    /\ phase = "match_done"
    /\ \/ \E i \in 1..Len(schemas) :
              /\ \/ schemas' = [schemas EXCEPT ![i] = WithOtherHints(@)]
                 \/ schemas' = [schemas EXCEPT ![i] = WithReorderedColumns(@)]
              /\ UNCHANGED file_profile
       \/ /\ file_profile' = [file_profile EXCEPT !.rows = WithReorderedCells(@)]
          /\ UNCHANGED schemas
    /\ match' = match_file_to_schema(file_profile', schemas')
    /\ phase' = "match_varied"
    /\ UNCHANGED <<schemas_dir, runVars>>

\* The schemas with at least two required columns, and the one that repeats
\* a column.
VaryPool == {S_ab, S_abcd, S_ba, S_cd, S_aaa}

InitVary ==
    /\ phase = "match_input"
    /\ schemas_dir = [is_dir |-> FALSE, entries |-> {}]
    /\ schemas \in SeqsUpTo(VaryPool, MaxSchemas)
    /\ file_profile \in ProfilePool
    /\ match = NoMatch
    /\ RunIdle

NextVary == CallMatch \/ CallMatchVaried

SpecVary == InitVary /\ [][NextVary]_vars

----------------------------------------------------------------------------
(* Properties of match_file_to_schema, stated on the inputs and the result   *)
(* without the matcher's own loop.                                           *)

FileName == Last(file_profile.path)

\* Catalog positions whose schema has a file pattern matching the file name.
PatternHits == {i \in 1..Len(schemas) : _matches_any_pattern(FileName, schemas[i].file_patterns)}

\* The row holds every required column of the schema among its cells.
RowContainsAll(s, row) == SeqToSet(s.required_columns) \subseteq SeqToSet(row)

\* The row has a non-empty cell and its non-empty cells hold every required
\* column of the schema.
RowQualifies(s, row) ==
    LET filled == {c \in SeqToSet(row) : c # <<>>}
    IN  filled # {} /\ SeqToSet(s.required_columns) \subseteq filled

QualifyingRows(s) == {r \in 1..Len(file_profile.rows) : RowQualifies(s, file_profile.rows[r])}

\* Catalog positions of the candidates that find a header in the file.
Finders == {i \in PatternHits : QualifyingRows(schemas[i]) # {}}

\* The 0-based index of the first qualifying row of the schema at position i.
FirstHeader(i) ==
    (CHOOSE r \in QualifyingRows(schemas[i]) :
        \A r2 \in QualifyingRows(schemas[i]) : r <= r2) - 1

RequiredCount(i) == Len(schemas[i].required_columns)

\* The finders with the greatest required-column count.
MostSpecific == {i \in Finders : \A j \in Finders : RequiredCount(j) <= RequiredCount(i)}

\* Among those, the ones whose header is on the earliest row.
Earliest == {i \in MostSpecific : \A j \in MostSpecific : FirstHeader(i) <= FirstHeader(j)}

Matched == phase = "match_done" /\ match.status = "matched"

C8_Specificity ==
    Matched =>
        /\ \E i \in Finders : schemas[i] = match.schema
        /\ \A i \in Finders :
               Len(schemas[i].required_columns) <= Len(match.schema.required_columns)

\* The more specific schema comes first in the catalog and finds its header on
\* a later row than a less specific one, and wins.
C8_Witness ==
    /\ Matched
    /\ \E i, j \in Finders :
           /\ i < j
           /\ RequiredCount(i) > RequiredCount(j)
           /\ FirstHeader(i) > FirstHeader(j)
           /\ match.schema = schemas[i]

\* C9 (tie-break law): when several candidates found a header with the
\* greatest required-column count and, among those, on the same earliest row,
\* the one earliest in the catalog is the winner.
C9_TieBreak ==
    Matched =>
        LET first == CHOOSE i \in Earliest : \A j \in Earliest : i <= j
        IN  match.schema = schemas[first]

\* Two different schemas tie on count and header row; the earlier one wins.
C9_Witness ==
    /\ Matched
    /\ \E i, j \in Earliest : i < j /\ schemas[i] # schemas[j] /\ match.schema = schemas[i]

\* C10: when the candidates with the greatest required-column count found
\* their headers on different rows, the winner is one whose header is on the
\* lowest of those rows, whatever their catalog order, and that row is the
\* header row index of the result.
C10_LowestHeaderRow ==
    Matched =>
        /\ \E i \in Earliest : schemas[i] = match.schema /\ match.header_row_index = FirstHeader(i)
        /\ \A j \in MostSpecific : match.header_row_index <= FirstHeader(j)

\* Equally specific schemas find headers on different rows; the one with the
\* lower row comes later in the catalog and wins.
C10_Witness ==
    /\ Matched
    /\ \E i, j \in MostSpecific :
           /\ i < j
           /\ FirstHeader(j) < FirstHeader(i)
           /\ match.schema = schemas[j]
           /\ match.header_row_index = FirstHeader(j)

\* C21: for a matched file the header row index is the smallest index of a row
\* whose non-empty cells include every required column of the winning schema:
\* no row before it qualifies, a row of empty cells only never qualifies, and
\* columns beyond the required ones do not prevent a row from qualifying.
C21_FirstQualifyingRow ==
    Matched =>
        LET required == SeqToSet(match.schema.required_columns)
            filled(r) == {c \in SeqToSet(file_profile.rows[r]) : c # <<>>}
            h == match.header_row_index + 1
        IN  /\ h \in 1..Len(file_profile.rows)
            /\ filled(h) # {}
            /\ required \subseteq filled(h)
            /\ \A r \in 1..(h - 1) : filled(r) = {} \/ ~(required \subseteq filled(r))

\* The header is found on the second row, which has a column more than the
\* schema requires, after a row of empty cells only.
C21_Witness ==
    /\ Matched
    /\ match.header_row_index = 1
    /\ SeqToSet(file_profile.rows[1]) = {<<>>}
    /\ SeqToSet(match.schema.required_columns) # {c \in SeqToSet(file_profile.rows[2]) : c # <<>>}

\* C22 (coarse filter): when the file name matches no file pattern of any
\* schema the result is unclassified / 'no_file_pattern_match' whatever the
\* rows hold, and a header is searched only for the schemas whose pattern
\* matches the name: a schema whose pattern does not match never wins, even
\* if a row holds all of its required columns.
C22_PatternFilter ==
    phase = "match_done" =>
        /\ PatternHits = {} =>
               match = MatchResult("unclassified", NoSchema, "no_file_pattern_match",
                                   NoneIdx, <<>>)
        /\ match.status = "matched" =>
               _matches_any_pattern(FileName, match.schema.file_patterns)
        /\ match.reason = "no_header_match_for_any_candidate" => PatternHits # {}

\* No pattern matches the name of a file in which a schema of the catalog
\* would find its header.
C22_Witness ==
    /\ phase = "match_done"
    /\ match.reason = "no_file_pattern_match"
    /\ schemas # <<>>
    /\ \E i \in 1..Len(schemas) : QualifyingRows(schemas[i]) # {}

\* The number of distinct required columns of a schema.
DistinctCount(schema) == Cardinality(SeqToSet(schema.required_columns))

\* C29: the winner is a candidate with the most distinct required columns:
\* a schema whose list repeats a name does not beat a schema with more
\* distinct required columns when both find a header.
C29_DistinctColumnsCount ==
    Matched => \A i \in Finders : DistinctCount(schemas[i]) <= DistinctCount(match.schema)

\* The part of a result the claim speaks of: the status, the winning schema
\* (by the fields that identify it and route the file) and the header row.
Outcome(m) ==
    [status |-> m.status,
     schema |-> IF m.schema = NoSchema THEN <<>>
                ELSE <<m.schema.id, m.schema.source_system, m.schema.dataset_name>>,
     header_row_index |-> m.header_row_index]

\* C30: the outcome of matching depends on the file patterns, the set of
\* required columns and the catalog order only: after a change of a schema's
\* version, description, delimiter or encoding hint, allow_extra_columns flag
\* or optional columns, a reordering of its required columns, or a reordering
\* of the cells within the rows, a second call returns the same status,
\* winning schema and header row index; and a call leaves the schema list and
\* the probed file as they were.
C30_Noninterference ==
    /\ [][(phase = "match_done" /\ phase' = "match_varied") =>
              Outcome(match') = Outcome(match)]_vars
    /\ [][(phase = "match_input" /\ phase' = "match_done") =>
              (schemas' = schemas /\ file_profile' = file_profile)]_vars

\* A file was matched again to a schema that, after the change, does not
\* allow extra columns, on a header row that holds a column the schema does
\* not name.
C30_Witness ==
    /\ phase = "match_varied"
    /\ match.status = "matched"
    /\ ~match.schema.allow_extra_columns
    /\ ~(row_values(file_profile.rows[match.header_row_index + 1]) \subseteq
            SeqToSet(match.schema.required_columns) \cup SeqToSet(match.schema.optional_columns))

----------------------------------------------------------------------------
(* SpecLoad: load_all_schemas applied to every schema directory of the pool. *)

Definition(id, source_system, dataset_name, file_patterns, required_columns) ==
    [id |-> id, source_system |-> source_system, dataset_name |-> dataset_name,
     file_patterns |-> file_patterns, required_columns |-> required_columns]

D_ab == Definition(Str("s_ab"), Str("sf"), Str("accounts"),
                   List(<<Pat_a_star_csv>>), List(<<ColA, ColB>>))
D_cd == Definition(Str("s_cd"), Str("ws"), Str("visits"),
                   List(<<Pat_a_star_csv>>), List(<<ColC, ColD>>))
D_no_id == Definition(Absent, Str("sf"), Str("accounts"),
                      List(<<Pat_star>>), List(<<ColA>>))
D_null_dataset == Definition(Str("s1"), Str("sf"), Null,
                             List(<<Pat_star>>), List(<<ColA>>))
D_empty_source == Definition(Str("s2"), Str(""), Str("accounts"),
                             List(<<Pat_star>>), List(<<ColA>>))
D_no_patterns == Definition(Str("s3"), Str("sf"), Str("accounts"),
                            List(<<>>), List(<<ColA>>))
D_no_columns == Definition(Str("s4"), Str("sf"), Str("accounts"),
                           List(<<Pat_star>>), Absent)
\* "file_patterns: a*.csv": a string where a list is meant
D_string_patterns == Definition(Str("s5"), Str("sf"), Str("accounts"),
                                Chars(Pat_a_star_csv), List(<<ColA>>))
\* "required_columns: {}": an empty mapping where a list is meant
D_mapping_columns == Definition(Str("s_none"), Str("sf"), Str("leads"),
                                List(<<Pat_star>>), Map(<<>>))

DefinitionPool ==
    {D_ab, D_cd, D_no_id, D_null_dataset, D_empty_source, D_no_patterns,
     D_no_columns, D_string_patterns, D_mapping_columns}

EntryNames ==
    { <<"a", ".", "y", "a", "m", "l">>,
      <<"a", ".", "y", "m", "l">>,
      <<"b", "2", ".", "y", "m", "l">>,
      <<"c", ".", "y", "a", "m", "l">>,
      <<"x", ".", "t", "x", "t">> }

\* What a directory entry holds: whether it parses ("mapping", "empty" for
\* an empty document, "invalid" for one yaml.safe_load rejects) and its mapping.
ContentPool ==
    {[doc |-> "mapping", data |-> d] : d \in DefinitionPool}
    \cup {[doc |-> k, data |-> D_ab] : k \in {"empty", "invalid"}}

NoDir == [is_dir |-> FALSE, entries |-> {}]

\* The directories of at most n entries with names of `names` and contents of
\* `contents`, and the missing directory.
DirsOf(names, contents, n) ==
    UNION {
        {[is_dir |-> TRUE,
          entries |-> {[name |-> x, doc |-> f[x].doc, data |-> f[x].data] : x \in ns}] :
            f \in [ns -> contents]} :
        ns \in {x \in SUBSET names : Cardinality(x) <= n}}
    \cup {NoDir}

InitLoad ==
    /\ phase = "load_input"
    /\ schemas_dir \in DirsOf(EntryNames, ContentPool, MaxDefs)
    /\ schemas = <<>>
    /\ file_profile = NoProfile
    /\ match = NoMatch
    /\ RunIdle

CallLoad ==
    /\ phase = "load_input"
    /\ LET loaded == load_all_schemas(schemas_dir)
       IN  /\ schemas' = loaded.schemas
           /\ phase' = IF loaded.ok THEN "load_done" ELSE "load_failed"
    /\ UNCHANGED <<schemas_dir, file_profile, match, runVars>>

NextLoad == CallLoad

SpecLoad == InitLoad /\ [][NextLoad]_vars

\* The definition files of the directory: its *.yaml and *.yml entries.
DefinitionFiles ==
    {e \in schemas_dir.entries : fnmatch(e.name, GlobYaml) \/ fnmatch(e.name, GlobYml)}

\* C6: load_all_schemas is all-or-nothing: the catalog it returns holds one
\* schema per definition file of the directory, each with non-empty id,
\* source_system, dataset_name, file_patterns and required_columns; otherwise
\* it fails.
C6_AllOrNothing ==
    phase = "load_done" =>
        /\ Len(schemas) = Cardinality(DefinitionFiles)
        /\ \A i \in 1..Len(schemas) :
               /\ schemas[i].id # ""
               /\ schemas[i].source_system # ""
               /\ schemas[i].dataset_name # ""
               /\ schemas[i].file_patterns # <<>>
               /\ schemas[i].required_columns # <<>>

\* The place of a definition file among the definition files of the
\* directory, by ascending name.
Rank(e) == Cardinality({o \in DefinitionFiles : StrLess(o.name, e.name)}) + 1

\* C24: load_all_schemas returns the schemas in ascending order of the names
\* of their definition files, .yaml and .yml in one ordering: the place of a
\* schema in the catalog depends on the file names only.
C24_CatalogOrder ==
    phase = "load_done" =>
        \A e \in DefinitionFiles :
            /\ Rank(e) \in 1..Len(schemas)
            /\ schemas[Rank(e)] = load_schema(e).schema

\* A .yml definition is placed before a .yaml definition of a greater name.
C24_Witness ==
    /\ phase = "load_done"
    /\ Len(schemas) = 2
    /\ schemas[1] # schemas[2]
    /\ \E e1, e2 \in DefinitionFiles :
           /\ fnmatch(e1.name, GlobYml)
           /\ fnmatch(e2.name, GlobYaml)
           /\ StrLess(e1.name, e2.name)

----------------------------------------------------------------------------
(* Spec: one call of run_classify_drop_zone(datalake_root = Path("datalake")) *)
(* phase: "start", then "returned" (no incoming directory), "config_error"  *)
(* (load_all_schemas raised) or "loop"; per file "match", "move", "reject"; *)
(* at the end "done", or "crashed" when an exception leaves the loop.       *)

datalake_root == <<"datalake">>

max_rows == 2

\* Entries of drop_zone/incoming: regular files with their raw rows and
\* whether reading them fails, and a subdirectory.
Entry(name, kind, fault, rows) == [name |-> name, kind |-> kind, fault |-> fault, rows |-> rows]

E_a1 == Entry(Name_a1_csv, "file", "none", << <<<<" ", "A">>, <<"B", " ">>, ColX>> >>)
E_b1 == Entry(Name_b1_csv, "file", "none", << <<ColA, ColB>> >>)
E_a2 == Entry(<<"a", "2", ".", "c", "s", "v">>, "file", "none",
              << <<Blank, Blank>>, <<ColC>>, <<ColA, ColB>> >>)
E_a3 == Entry(<<"a", "3", ".", "x", "l", "s", "x">>, "file", "File is not a zip file", <<>>)
E_x == Entry(<<"x", ".", "t", "x", "t">>, "file", "none", << <<ColA, ColB>> >>)
E_sub == Entry(<<"s", "u", "b">>, "dir", "none", <<>>)

IncomingPool == {E_a1, E_b1, E_a2, E_a3, E_x, E_sub}

\* Listings of at most n entries with different names, in any order.
Listings(n) ==
    {l \in SeqsUpTo(IncomingPool, n) :
        \A i, j \in 1..Len(l) : l[i].name = l[j].name => i = j}

\* "file_patterns: [1]": a pattern that is not a string
D_int_pattern == Definition(Str("s6"), Str("sf"), Str("orders"),
                            List(<<NonStringPattern>>), List(<<ColA>>))

\* "dataset_name: /srv": a name that is an absolute path
D_rooted == Definition(Str("s_rooted"), Str("sf"), Str("/srv"),
                       List(<<Pat_class_csv>>), List(<<ColA>>))

Name_a_yaml == <<"a", ".", "y", "a", "m", "l">>
Name_b2_yml == <<"b", "2", ".", "y", "m", "l">>

DirWith(c1, c2) ==
    [is_dir |-> TRUE,
     entries |-> {[name |-> Name_a_yaml, doc |-> c1.doc, data |-> c1.data],
                  [name |-> Name_b2_yml, doc |-> c2.doc, data |-> c2.data]}]

Mapping(d) == [doc |-> "mapping", data |-> d]

\* The schema directories of the runs: missing, two good definitions, one
\* whose dataset name is an absolute path, one definition without id, one that
\* does not parse, one whose pattern raises.
RunDirs ==
    {NoDir,
     DirWith(Mapping(D_ab), Mapping(D_cd)),
     DirWith(Mapping(D_ab), Mapping(D_rooted)),
     DirWith(Mapping(D_ab), Mapping(D_no_id)),
     DirWith([doc |-> "invalid", data |-> D_ab], Mapping(D_cd)),
     DirWith(Mapping(D_ab), Mapping(D_int_pattern))}

RegularFiles(l) == {l[i] : i \in {k \in 1..Len(l) : l[k].kind = "file"}}

\* The files on disk when the run starts.
FilesIn(l) == [p \in {Append(IncomingDir, e.name) : e \in RegularFiles(l)} |-> Last(p)]

Init ==
    /\ phase = "start"
    /\ schemas_dir \in RunDirs
    /\ schemas = <<>>
    /\ file_profile = NoProfile
    /\ match = NoMatch
    /\ incoming_is_dir \in BOOLEAN
    /\ listing \in (IF incoming_is_dir THEN Listings(MaxFiles) ELSE {<<>>})
    /\ idx = 0
    /\ fs = FilesIn(listing)
    /\ records = <<>>
    /\ logs = <<>>
    /\ summary = NoSummary
    /\ load_date = NoDate
    /\ today = 1
    /\ exc = NoneStr

\* if not incoming_dir.is_dir(): print warning; return
ReturnNoIncoming ==
    /\ phase = "start"
    /\ ~incoming_is_dir
    /\ phase' = "returned"
    /\ UNCHANGED <<schemas_dir, schemas, file_profile, match, runVars>>

\* schemas = load_all_schemas(schemas_dir); load_date = date.today(); records = []
LoadSchemas ==
    /\ phase = "start"
    /\ incoming_is_dir
    /\ LET loaded == load_all_schemas(schemas_dir)
       IN  IF loaded.ok
           THEN /\ schemas' = loaded.schemas
                /\ load_date' = Days[today]
                /\ idx' = 1
                /\ phase' = "loop"
           ELSE /\ phase' = "config_error"
                /\ UNCHANGED <<schemas, load_date, idx>>
    /\ UNCHANGED <<schemas_dir, file_profile, match, incoming_is_dir, listing, fs,
                   records, logs, summary, today, exc>>

\* if not path.is_file(): continue
SkipEntry ==
    /\ phase = "loop"
    /\ idx <= Len(listing)
    /\ listing[idx].kind # "file"
    /\ idx' = idx + 1
    /\ UNCHANGED <<phase, schemas_dir, schemas, file_profile, match, incoming_is_dir,
                   listing, fs, records, logs, summary, load_date, today, exc>>

\* file_profile = inspect_file(path, max_rows=max_rows)
Inspect ==
    /\ phase = "loop"
    /\ idx <= Len(listing)
    /\ listing[idx].kind = "file"
    /\ LET r == inspect_file(IncomingDir, listing[idx], max_rows)
       IN  IF r.ok
           THEN /\ file_profile' = r.profile
                /\ phase' = "match"
                /\ UNCHANGED exc
           ELSE /\ exc' = r.error
                /\ phase' = "reject"
                /\ UNCHANGED file_profile
    /\ UNCHANGED <<schemas_dir, schemas, match, incoming_is_dir, listing, idx, fs,
                   records, logs, summary, load_date, today>>

\* match = match_file_to_schema(file_profile, schemas)
Match ==
    /\ phase = "match"
    /\ IF match_raises(file_profile, schemas)
       THEN /\ exc' = "expected str, bytes or os.PathLike object, not int"
            /\ phase' = "reject"
            /\ UNCHANGED match
       ELSE /\ match' = match_file_to_schema(file_profile, schemas)
            /\ phase' = "move"
            /\ UNCHANGED exc
    /\ UNCHANGED <<schemas_dir, schemas, file_profile, incoming_is_dir, listing, idx,
                   fs, records, logs, summary, load_date, today>>

\* record = move_file_according_to_result(file_profile, match, datalake_root, load_date)
\* records.append(record)
\* The directory may not be creatable and the move may fail; both raise.
Move ==
    /\ phase = "move"
    /\ \E fault \in {"none", "Permission denied: mkdir", "Permission denied: move"} :
           IF fault = "none"
           THEN /\ fs' = shutil_move(fs, file_profile.path,
                                     TargetOf(file_profile, match, datalake_root, load_date))
                /\ records' = Append(records,
                                     RecordOf(file_profile, match, datalake_root, load_date))
                /\ idx' = idx + 1
                /\ phase' = "loop"
                /\ UNCHANGED exc
           ELSE /\ exc' = fault
                /\ phase' = "reject"
                /\ UNCHANGED <<fs, records, idx>>
    /\ UNCHANGED <<schemas_dir, schemas, file_profile, match, incoming_is_dir, listing,
                   logs, summary, load_date, today>>

\* The record _reject_on_error returns.
RejectedRecord(path, reason) ==
    ClassificationRecord(path, build_rejected_path(datalake_root, Last(path)),
                         "rejected", NoneStr, NoneStr, NoneStr, reason, NoneIdx)

\* except Exception as exc: record = _reject_on_error(path, datalake_root, str(exc))
\* records.append(record)
\* Nothing catches what _reject_on_error raises: it leaves the loop and the run.
Reject ==
    /\ phase = "reject"
    /\ LET path == Append(IncomingDir, listing[idx].name)
       IN  \E fault \in {"none", "Permission denied: mkdir", "Permission denied: move"} :
               IF fault = "none" /\ path \in DOMAIN fs
               THEN /\ fs' = shutil_move(fs, path, build_rejected_path(datalake_root, Last(path)))
                    /\ records' = Append(records, RejectedRecord(path, exc))
                    /\ idx' = idx + 1
                    /\ phase' = "loop"
               ELSE /\ phase' = "crashed"
                    /\ UNCHANGED <<fs, records, idx>>
    /\ UNCHANGED <<schemas_dir, schemas, file_profile, match, incoming_is_dir, listing,
                   logs, summary, load_date, today, exc>>

\* Mutant: a record counts as rejected when it carries a reason.
CountStatus_ReasonMeansRejected(recs, status) ==
    IF status = "rejected"
    THEN Cardinality({k \in 1..Len(recs) : recs[k].reason # NoneStr})
    ELSE Cardinality({k \in 1..Len(recs) : recs[k].status = status})

\* sum(1 for r in records if r.status == status)
CountStatus(recs, status) == Cardinality({k \in 1..Len(recs) : recs[k].status = status})

\* After the loop: if records: write_classification_log(records, log_path) and
\* print the summary; else print "No files found in incoming."
Finish ==
    /\ phase = "loop"
    /\ idx > Len(listing)
    /\ IF records # <<>>
       THEN /\ logs' = Append(logs, write_classification_log(records))
            /\ summary' = [matched |-> CountStatus(records, "matched"),
                           unclassified |-> CountStatus(records, "unclassified"),
                           rejected |-> CountStatus(records, "rejected"),
                           total |-> Len(records)]
       ELSE UNCHANGED <<logs, summary>>
    /\ phase' = "done"
    /\ UNCHANGED <<schemas_dir, schemas, file_profile, match, incoming_is_dir, listing,
                   idx, fs, records, load_date, today, exc>>

RunEnded == phase \in {"returned", "config_error", "crashed", "done"}

\* Midnight passes while the run is under way.
Tick ==
    /\ ~RunEnded
    /\ today <= MaxTicks
    /\ today < Len(Days)
    /\ today' = today + 1
    /\ UNCHANGED <<phase, schemas_dir, schemas, file_profile, match, incoming_is_dir,
                   listing, idx, fs, records, logs, summary, load_date, exc>>

Next ==
    \/ ReturnNoIncoming
    \/ LoadSchemas
    \/ SkipEntry
    \/ Inspect
    \/ Match
    \/ Move
    \/ Reject
    \/ Finish
    \/ Tick

Spec == Init /\ [][Next]_vars

----------------------------------------------------------------------------
(* SpecMove: move_file_according_to_result applied to every file, match      *)
(* result and load date of the pools.                                        *)

\* Schemas whose source system or dataset name is more than a plain word: the
\* loader only asks that they are not empty.
S_slash == Schema("s_slash", "crm/v2", "accounts", <<Pat_star>>, <<ColA>>)
S_dot == Schema("s_dot", ".", "accounts", <<Pat_star>>, <<ColA>>)
S_rooted == Schema("s_rooted", "sf", "/srv", <<Pat_star>>, <<ColA>>)

RoutePool == {S_ab, S_cd, S_ba, S_slash, S_dot, S_rooted}

Name_a2_csv == <<"a", "2", ".", "c", "s", "v">>

MatchPool ==
    {MatchResult("matched", sch, NoneStr, 0, sch.required_columns) : sch \in RoutePool}
    \cup {MatchResult("unclassified", NoSchema, "no_file_pattern_match", NoneIdx, <<>>)}

\* A second directory holding a file of the same name, handed to the
\* relocator after the first, and what tells that file from the first.
SecondDir == <<"datalake", "drop_zone", "incoming", "late">>

SecondFile(name) == <<"2">> \o name

InitMove ==
    /\ phase = "move_input"
    /\ schemas_dir = NoDir
    /\ schemas = <<>>
    /\ file_profile \in
           {FileProfile(Append(IncomingDir, n), Ext_csv, << <<ColA, ColB>> >>) :
               n \in {Name_a1_csv, Name_b1_csv, Name_a2_csv}}
    /\ match \in MatchPool
    /\ incoming_is_dir = TRUE
    /\ listing = <<>>
    /\ idx = 0
    /\ fs = [p \in {file_profile.path, Append(SecondDir, Last(file_profile.path))} |->
                 IF p = file_profile.path THEN Last(p) ELSE SecondFile(Last(p))]
    /\ records = <<>>
    /\ logs = <<>>
    /\ summary = NoSummary
    /\ load_date \in SeqToSet(Days)
    /\ today = 1
    /\ exc = NoneStr

\* record = move_file_according_to_result(file_profile, match, datalake_root, load_date)
CallMove ==
    /\ phase = "move_input"
    /\ fs' = shutil_move(fs, file_profile.path,
                         TargetOf(file_profile, match, datalake_root, load_date))
    /\ records' = <<RecordOf(file_profile, match, datalake_root, load_date)>>
    /\ phase' = "move_done"
    /\ UNCHANGED <<schemas_dir, schemas, file_profile, match, incoming_is_dir, listing,
                   idx, logs, summary, load_date, today, exc>>

\* move_file_according_to_result called for the second file of that name,
\* with any match result.
CallMoveAgain ==
    /\ phase = "move_done"
    /\ \E m \in MatchPool :
           /\ match' = m
           /\ file_profile' = [file_profile EXCEPT !.path = Append(SecondDir, Last(@))]
           /\ fs' = shutil_move(fs, file_profile'.path,
                                TargetOf(file_profile', m, datalake_root, load_date))
           /\ records' = Append(records, RecordOf(file_profile', m, datalake_root, load_date))
    /\ phase' = "move_repeated"
    /\ UNCHANGED <<schemas_dir, schemas, incoming_is_dir, listing, idx, logs, summary,
                   load_date, today, exc>>

NextMove == CallMove \/ CallMoveAgain

SpecMove == InitMove /\ [][NextMove]_vars

DigitValue(c) == CHOOSE n \in 0..9 : Digit(n) = c

RECURSIVE Number(_)
Number(digits) ==
    IF digits = <<>> THEN 0
    ELSE 10 * Number(SubSeq(digits, 1, Len(digits) - 1)) + DigitValue(Last(digits))

\* The date a text YYYY-MM-DD names.
ParseDate(text) ==
    [year |-> Number(SubSeq(text, 1, 4)),
     month |-> Number(SubSeq(text, 6, 7)),
     day |-> Number(SubSeq(text, 9, 10))]

\* C12 (router round trip): the path built for a matched file is
\* {root}/raw/{source_system}/{dataset_name}/load_date={YYYY-MM-DD}/{filename},
\* and its components below root give back the source system, the dataset
\* name and the load date.
C12_RoundTrip ==
    (phase = "move_done" /\ match.status = "matched") =>
        LET path == records[1].target_path
            n == Len(datalake_root)
        IN  /\ Len(path) = n + 5
            /\ SubSeq(path, 1, n) = datalake_root
            /\ path[n + 1] = "raw"
            /\ path[n + 2] = match.schema.source_system
            /\ path[n + 3] = match.schema.dataset_name
            /\ Head(path[n + 4]) = "load_date="
            /\ Len(path[n + 4]) = 11
            /\ ParseDate(Tail(path[n + 4])) = load_date
            /\ path[n + 5] = Last(file_profile.path)

\* The two files were sent to the same destination.
Collided ==
    /\ phase = "move_repeated"
    /\ records[1].target_path = records[2].target_path

----------------------------------------------------------------------------
(* Properties of a run *)

\* The regular files in incoming when the run starts.
InitialFiles == RegularFiles(listing)

\* Where the file that was incoming/<name> is now.
PathsOf(name) == {p \in DOMAIN fs : fs[p] = name}

IsRawPath(p, name) ==
    /\ Len(p) = Len(datalake_root) + 5
    /\ SubSeq(p, 1, Len(datalake_root)) = datalake_root
    /\ p[Len(datalake_root) + 1] = "raw"
    /\ Head(p[Len(datalake_root) + 4]) = "load_date="
    /\ Last(p) = name

IsUnclassifiedPath(p, name) == p = datalake_root \o <<"drop_zone", "unclassified", name>>

IsRejectedPath(p, name) == p = datalake_root \o <<"drop_zone", "rejected", name>>

\* The file is at exactly one path, in raw, unclassified or rejected.
Placed(name) ==
    /\ Cardinality(PathsOf(name)) = 1
    /\ \A p \in PathsOf(name) :
           IsRawPath(p, name) \/ IsUnclassifiedPath(p, name) \/ IsRejectedPath(p, name)

\* The run got past its configuration and has ended, normally or not.
BatchEnded == phase \in {"done", "crashed"}

\* What the exceptions of each step read as.
ProbeErrors == {"Unsupported file extension", "File is not a zip file", "File does not exist"}
MatchErrors == {"expected str, bytes or os.PathLike object, not int"}
MoveErrors == {"Permission denied: mkdir", "Permission denied: move"}

\* The path of the file the loop is at.
CurrentPath == Append(IncomingDir, listing[idx].name)

\* C1: when a run that loaded its catalog ends, every regular file that was in
\* incoming at its start is at exactly one place, under raw/, in
\* drop_zone/unclassified or in drop_zone/rejected: none is missing from all
\* three, none is in two.
C1_ExactlyOnePlace ==
    BatchEnded => \A e \in InitialFiles : Placed(e.name)

\* C2: a failure while processing one file never stops the run: when the run
\* ends, the loop has been over every entry of incoming, every file has its
\* record and, if there was a file, the log is written.
C2_BatchNeverStops ==
    BatchEnded =>
        /\ idx > Len(listing)
        /\ Len(records) = Cardinality(InitialFiles)
        /\ InitialFiles # {} => Len(logs) = 1

\* C3: when move_file_according_to_result raised for a file, handling it
\* appends a record with status 'rejected' for that file (never 'matched' or
\* 'unclassified'), and either moves the file to the rejected area or, if that
\* move fails, leaves it at its original path.
C3_MoveFailureRejected ==
    [][(phase = "reject" /\ exc \in MoveErrors /\ phase' # "reject") =>
          /\ records' = Append(records, RejectedRecord(CurrentPath, exc))
          /\ \/ fs' = shutil_move(fs, CurrentPath,
                                  datalake_root \o <<"drop_zone", "rejected", Last(CurrentPath)>>)
             \/ fs' = fs]_vars

\* C4: when inspect_file or match_file_to_schema raised for a file, handling
\* it moves the file from its incoming path to drop_zone/rejected/<filename>
\* and appends a record with status 'rejected', the exception's text as
\* reason, and no schema id, source system, dataset name or header row index.
C4_ProbeFailureRejected ==
    [][(phase = "reject" /\ exc \in ProbeErrors \cup MatchErrors /\ phase' # "reject") =>
          /\ {p \in DOMAIN fs' : fs'[p] = Last(CurrentPath)} =
                 {datalake_root \o <<"drop_zone", "rejected", Last(CurrentPath)>>}
          /\ Len(records') = Len(records) + 1
          /\ Last(records').original_path = CurrentPath
          /\ Last(records').status = "rejected"
          /\ Last(records').reason = exc
          /\ Last(records').schema_id = NoneStr
          /\ Last(records').source_system = NoneStr
          /\ Last(records').dataset_name = NoneStr
          /\ Last(records').header_row_index = NoneIdx]_vars

\* C13: in every record of a run the status determines the destination area:
\* 'matched' under {root}/raw/{source_system}/{dataset_name}/load_date=..,
\* 'unclassified' at {root}/drop_zone/unclassified/{filename}, 'rejected' at
\* {root}/drop_zone/rejected/{filename}; the last component is always the
\* original file name.
C13_StatusDeterminesArea ==
    \A k \in 1..Len(records) :
        LET r == records[k]
            name == Last(r.original_path)
            n == Len(datalake_root)
        IN  /\ r.status \in {"matched", "unclassified", "rejected"}
            /\ r.status = "matched" =>
                   /\ Len(r.target_path) = n + 5
                   /\ SubSeq(r.target_path, 1, n + 1) = Append(datalake_root, "raw")
                   /\ r.target_path[n + 2] = r.source_system
                   /\ r.target_path[n + 3] = r.dataset_name
                   /\ Head(r.target_path[n + 4]) = "load_date="
                   /\ Last(r.target_path) = name
            /\ r.status = "unclassified" =>
                   r.target_path = datalake_root \o <<"drop_zone", "unclassified", name>>
            /\ r.status = "rejected" =>
                   r.target_path = datalake_root \o <<"drop_zone", "rejected", name>>

\* The incoming paths of the regular files of a listing, in its order.
RECURSIVE ProcessingOrder(_)
ProcessingOrder(l) ==
    IF l = <<>> THEN <<>>
    ELSE IF Head(l).kind = "file"
         THEN <<Append(IncomingDir, Head(l).name)>> \o ProcessingOrder(Tail(l))
         ELSE ProcessingOrder(Tail(l))

\* C14: when a run that processed at least one file ends, the log it wrote
\* holds exactly one row per regular file that was in incoming at its start,
\* in the order the files were processed.
C14_OneRowPerFile ==
    (BatchEnded /\ records # <<>>) =>
        /\ Len(logs) = 1
        /\ [k \in 1..Len(logs[1]) |-> logs[1][k].original_path] = ProcessingOrder(listing)

\* C15: a run writes exactly one log if at least one file was processed, and
\* none if incoming held no regular file or does not exist.
C15_OneLogOrNone ==
    RunEnded =>
        /\ records # <<>> => Len(logs) = 1
        /\ (InitialFiles = {} \/ ~incoming_is_dir) => logs = <<>>

\* C16: in the summary of a run the matched, unclassified and rejected counts
\* add up to the total, the total is the number of files processed, and every
\* record's status is one of the three.
C16_SummaryAddsUp ==
    summary # NoSummary =>
        /\ summary.matched + summary.unclassified + summary.rejected = summary.total
        /\ summary.total = Len(records)
        /\ summary.total = Cardinality(InitialFiles)
        /\ \A k \in 1..Len(records) :
               records[k].status \in {"matched", "unclassified", "rejected"}

\* A summary over a matched and a rejected file.
C16_Witness ==
    /\ phase = "done"
    /\ summary # NoSummary
    /\ summary.matched = 1
    /\ summary.rejected = 1
    /\ summary.total = 2

\* The positions of the regular files in the listing.
FilePositions == {k \in 1..Len(listing) : listing[k].kind = "file"}

\* The records of the file at position k.
RecordsOfFile(k) ==
    {j \in 1..Len(records) : records[j].original_path = Append(IncomingDir, listing[k].name)}

\* The processing state of the file at position k of the listing: Probed,
\* Matched / Unclassified and Failed while the loop is at it, Relocated or
\* Rejected once it has its record and lies where the record says, Pending
\* before that.
FileState(k) ==
    IF k = idx /\ phase = "match" THEN "Probed"
    ELSE IF k = idx /\ phase = "move"
         THEN (IF match.status = "matched" THEN "Matched" ELSE "Unclassified")
    ELSE IF k = idx /\ phase \in {"reject", "crashed"} THEN "Failed"
    ELSE IF RecordsOfFile(k) = {} THEN "Pending"
    ELSE LET r == records[CHOOSE j \in RecordsOfFile(k) : TRUE]
         IN  IF Cardinality(RecordsOfFile(k)) # 1 \/ PathsOf(listing[k].name) # {r.target_path}
             THEN "Misplaced"
             ELSE IF r.status = "rejected" THEN "Rejected" ELSE "Relocated"

\* Pending -> Probed -> (Matched | Unclassified) -> Relocated, and
\* Pending -> Failed -> Rejected.
ClaimedTransitions ==
    { <<"Pending", "Probed">>, <<"Probed", "Matched">>, <<"Probed", "Unclassified">>,
      <<"Matched", "Relocated">>, <<"Unclassified", "Relocated">>,
      <<"Pending", "Failed">>, <<"Failed", "Rejected">> }

\* A failure may also come after the probe or after the match.
FailureTransitions ==
    { <<"Probed", "Failed">>, <<"Matched", "Failed">>, <<"Unclassified", "Failed">> }

\* C17 as claimed: each file's processing follows only the transitions
\* Pending -> Probed -> (Matched | Unclassified) -> Relocated or
\* Pending -> Failed -> Rejected; Relocated and Rejected are terminal and no
\* file is relocated without having been probed and matched.
C17_ClaimedTransitionsOnly ==
    [][\A k \in FilePositions :
          \/ FileState(k)' = FileState(k)
          \/ <<FileState(k), FileState(k)'>> \in ClaimedTransitions]_vars

\* C17 amended: the same, where Failed is also entered from Probed (the match
\* raised) and from Matched or Unclassified (the directory creation or the
\* move raised).
C17_Transitions ==
    [][\A k \in FilePositions :
          \/ FileState(k)' = FileState(k)
          \/ <<FileState(k), FileState(k)'>> \in ClaimedTransitions \cup FailureTransitions]_vars

\* A run has relocated one file and rejected another whose move had failed
\* after it was matched.
C17_Witness ==
    /\ phase = "done"
    /\ \E k \in FilePositions : FileState(k) = "Relocated"
    /\ \E k \in FilePositions :
           /\ FileState(k) = "Rejected"
           /\ \E j \in RecordsOfFile(k) : records[j].reason \in MoveErrors

\* C18: every pending file reaches a terminal state: when the run over the
\* files of incoming has ended, each of them is Relocated or Rejected and has
\* its record.
C18_EveryFileTerminal ==
    BatchEnded =>
        \A k \in FilePositions :
            /\ FileState(k) \in {"Relocated", "Rejected"}
            /\ Cardinality(RecordsOfFile(k)) = 1

\* The entry is a regular file whose lower-cased extension is not supported.
Unsupported(e) ==
    e.kind = "file" /\ lower(suffix(e.name)) \notin {Ext_csv, Ext_xlsx, Ext_xls}

\* C20: inspect_file returns no probed file for an invalid input: it fails with
\* the file-not-found error when the path is not a regular file, whatever its
\* extension, and with the unsupported-format error when the lower-cased
\* extension is not .csv, .xlsx or .xls; a file of a batch run on which
\* inspect_file fails so ends rejected.
C20_InvalidInputRejected ==
    /\ \A k \in 1..Len(listing) :
           LET probed == inspect_file(IncomingDir, listing[k], max_rows)
           IN  /\ listing[k].kind # "file" =>
                      /\ ~probed.ok
                      /\ probed.profile = NoProfile
                      /\ probed.error = "File does not exist"
               /\ Unsupported(listing[k]) =>
                      /\ ~probed.ok
                      /\ probed.profile = NoProfile
                      /\ probed.error = "Unsupported file extension"
    /\ BatchEnded =>
           \A k \in FilePositions :
               Unsupported(listing[k]) =>
                   /\ FileState(k) = "Rejected"
                   /\ \A j \in RecordsOfFile(k) :
                          records[j].reason = "Unsupported file extension"

\* The rows of the file the loop is at, as the file holds them, normalized.
FileRows == [r \in 1..Len(listing[idx].rows) |-> NormalizeRow(listing[idx].rows[r])]

\* The rows of that file in which the schema would find its header.
HeaderRowsInFile(schema) == {r \in 1..Len(FileRows) : RowQualifies(schema, FileRows[r])}

\* C23: the prober returns the first min(max_rows, number of rows) rows of the
\* file, in file order; so a row at index >= max_rows is never a header, and a
\* file whose only qualifying rows lie beyond the cap is unclassified with
\* reason 'no_header_match_for_any_candidate'.
C23_RowCap ==
    /\ phase \in {"match", "move"} =>
           /\ Len(file_profile.rows) = Min(max_rows, Len(FileRows))
           /\ Len(file_profile.rows) <= max_rows
           /\ \A r \in 1..Len(file_profile.rows) : file_profile.rows[r] = FileRows[r]
    /\ phase = "move" =>
           /\ match.header_row_index < max_rows
           /\ (/\ PatternHits # {}
               /\ \A i \in PatternHits : \A r \in HeaderRowsInFile(schemas[i]) : r > max_rows) =>
                  /\ match.status = "unclassified"
                  /\ match.reason = "no_header_match_for_any_candidate"

\* A file whose header lies beyond the cap has been found unclassified.
C23_Witness ==
    /\ phase = "move"
    /\ Len(FileRows) > max_rows
    /\ \E i \in PatternHits : HeaderRowsInFile(schemas[i]) # {}
    /\ match.reason = "no_header_match_for_any_candidate"

\* The partition directory of a raw destination: the parent of the file.
PartitionOf(path) == path[Len(path) - 1]

MatchedRecords == {k \in 1..Len(records) : records[k].status = "matched"}

\* C25: the load date is assigned once per run: it never changes once taken,
\* and every file matched in the run is placed under load_date=YYYY-MM-DD of
\* that date, even if the calendar day changes while the run is under way.
C25_OneLoadDate ==
    /\ [](\A k \in MatchedRecords :
             PartitionOf(records[k].target_path) = <<"load_date=">> \o strftime(load_date))
    /\ [][load_date # NoDate => load_date' = load_date]_vars

\* Two files were matched in a run during which midnight passed after the
\* load date was taken.
C25_Witness ==
    /\ phase = "done"
    /\ Cardinality(MatchedRecords) = 2
    /\ load_date # Days[today]
    /\ \A j, k \in MatchedRecords :
           PartitionOf(records[j].target_path) = PartitionOf(records[k].target_path)

NoSchemaFields(r) ==
    r.schema_id = NoneStr /\ r.source_system = NoneStr /\ r.dataset_name = NoneStr

\* C26 (record fields): in every record of a run, 'matched' comes with the
\* id, source system and dataset name of the winning schema, a header row
\* index and no reason; 'unclassified' with no schema field, no header row
\* index and one of the two matcher reasons; 'rejected' with no schema field
\* and no header row index.  match_file_to_schema never returns 'rejected'.
C26_RecordFields ==
    /\ [](/\ \A k \in 1..Len(records) :
                LET r == records[k]
                IN  /\ r.status = "matched" =>
                           /\ \E i \in 1..Len(schemas) :
                                  /\ r.schema_id = schemas[i].id
                                  /\ r.source_system = schemas[i].source_system
                                  /\ r.dataset_name = schemas[i].dataset_name
                           /\ r.header_row_index >= 0
                           /\ r.reason = NoneStr
                    /\ r.status = "unclassified" =>
                           /\ NoSchemaFields(r)
                           /\ r.header_row_index = NoneIdx
                           /\ r.reason \in {"no_file_pattern_match",
                                             "no_header_match_for_any_candidate"}
                    /\ r.status = "rejected" =>
                           NoSchemaFields(r) /\ r.header_row_index = NoneIdx
          /\ phase = "move" => match.status \in {"matched", "unclassified"})
    /\ [][(phase = "move" /\ phase' = "loop" /\ match.status = "matched") =>
              /\ Last(records').schema_id = match.schema.id
              /\ Last(records').source_system = match.schema.source_system
              /\ Last(records').dataset_name = match.schema.dataset_name
              /\ Last(records').header_row_index = match.header_row_index]_vars

\* A run has recorded a matched file, with its header on the first row, and
\* an unclassified one.
C26_Witness ==
    /\ phase = "done"
    /\ \E j, k \in 1..Len(records) :
           /\ records[j].status = "matched"
           /\ records[j].header_row_index = 0
           /\ records[k].status = "unclassified"

\* C27: within one run two distinct files of incoming never resolve to the
\* same destination, the destination keeps the original file name, and no
\* file moved by the run overwrites another file moved by it: every file that
\* was in incoming is still on disk.
C27_NoCollisionInRun ==
    /\ \A j, k \in 1..Len(records) :
           j # k => /\ records[j].original_path # records[k].original_path
                    /\ records[j].target_path # records[k].target_path
    /\ \A k \in 1..Len(records) :
           Last(records[k].target_path) = Last(records[k].original_path)
    /\ Cardinality(DOMAIN fs) = Cardinality(InitialFiles)
    /\ \A e \in InitialFiles : PathsOf(e.name) # {}

\* Two files of a run were moved to the same area, each under its own name.
C27_Witness ==
    /\ phase = "done"
    /\ Len(records) = 2
    /\ records[1].status = "unclassified"
    /\ records[2].status = "unclassified"
    /\ DOMAIN fs = {records[1].target_path, records[2].target_path}

\* C28: every file a run has moved out of incoming has a row in a log written
\* by that run, however the run ends, an error that leaves the loop included.
C28_MovedFilesLogged ==
    RunEnded =>
        \A e \in InitialFiles :
            Append(IncomingDir, e.name) \notin DOMAIN fs =>
                \E n \in 1..Len(logs) : \E k \in 1..Len(logs[n]) :
                    logs[n][k].original_path = Append(IncomingDir, e.name)

\* A definition file is malformed: it does not parse, or one of the five
\* required keys is absent, null, an empty list or an empty string.
Malformed(e) ==
    \/ e.doc \in {"invalid", "empty"}
    \/ \E key \in RequiredKeys :
           \/ e.data[key].kind \in {"absent", "null"}
           \/ e.data[key].kind \in {"list", "chars"} /\ Len(e.data[key].v) = 0
           \/ e.data[key].kind = "str" /\ e.data[key].v = ""

BadConfiguration == ~schemas_dir.is_dir \/ \E e \in DefinitionFiles : Malformed(e)

\* No file of incoming has been probed or moved and no log is written.
Untouched ==
    /\ fs = FilesIn(listing)
    /\ file_profile = NoProfile
    /\ records = <<>>
    /\ logs = <<>>

\* C5 as claimed: with the schema directory missing or a definition malformed,
\* the run ends with an error, no file of incoming is ever probed or moved and
\* no log is written.
C5_AlwaysAborts ==
    BadConfiguration => Untouched /\ (RunEnded => phase = "config_error")

\* C5 amended: the same when drop_zone/incoming exists; when it does not, the
\* run returns with a warning before it loads any schema, equally without
\* probing or moving a file or writing a log.
C5_ConfigurationFatal ==
    BadConfiguration =>
        /\ Untouched
        /\ RunEnded => phase = (IF incoming_is_dir THEN "config_error" ELSE "returned")

\* A run over an incoming directory with a regular file ends with the
\* configuration error of a malformed definition.
C5_Witness ==
    /\ phase = "config_error"
    /\ schemas_dir.is_dir
    /\ InitialFiles # {}
    /\ Untouched

============================================================================
